---------------------------- MODULE Spec2Model ----------------------------
(***************************************************************************)
(* Cost-guarded query runner of landsat-bigquery (src/src/bq_utils.py) and *)
(* the Reporter that drives it (src/queries.py).                           *)
(*                                                                         *)
(* Numbers.  Python computes (bytes / 1024 ** 4) * cost_per_tb in binary   *)
(* floating point.  The division is by a power of two and the prices used  *)
(* (6 and 6.25 = 25/4) are dyadic, so for every byte count below 2^48 the  *)
(* float result is the exact rational; the model therefore computes with   *)
(* exact rationals <<n, d>>.  TLC integers are 32 bits wide, so byte       *)
(* counts are counted in granules of 1024 ** 2 bytes: 1024 ** 4 bytes are  *)
(* 1024 ** 2 granules.                                                     *)
(***************************************************************************)
EXTENDS Integers, Sequences, FiniteSets, TLC

VARIABLES
    pc,                 \* control location of the (single-threaded) process
    fn,                 \* entry point of the current call: "estimate" | "run" | "none"
    query,              \* parameter query
    config,             \* parameter config of run_query (caller supplied)
    warning_threshold,  \* parameter warning_threshold of run_query
    cost_per_tb,        \* parameter cost_per_tb of estimate_query_cost
    dry_bytes,          \* dry_run.total_bytes_processed
    estimated_cost,     \* local estimated_cost / value returned by the estimate
    answer,             \* the line input() returned
    result,             \* how the current call ended
    log,                \* what the current call did, in order
    stdout,             \* lines printed by the current call
    jobs,               \* the warehouse's real query jobs, in submission order
    cache,              \* queries whose result the warehouse holds cached
    scan,               \* per query, the bytes a full scan reads (the table's data)
    calls,              \* number of calls made so far
    step,               \* Reporter: index of the query function being run
    used                \* Reporter: indices whose result has been used

vars == <<pc, fn, query, config, warning_threshold, cost_per_tb, dry_bytes,
          estimated_cost, answer, result, log, stdout, jobs, cache, scan, calls, step, used>>

-----------------------------------------------------------------------------
(* Bounds of the model *)

MaxCalls == 2
MaxInputLen == 2

-----------------------------------------------------------------------------
(* Exact rational arithmetic *)

RECURSIVE Gcd(_, _)
Gcd(a, b) == IF b = 0 THEN a ELSE Gcd(b, a % b)

Norm(r) == IF r[1] = 0 THEN <<0, 1>>
           ELSE LET g == Gcd(r[1], r[2]) IN <<r[1] \div g, r[2] \div g>>

FromInt(i) == <<i, 1>>

\* a * b, cancelling across before multiplying
RMul(a, b) ==
    LET x == Norm(a)
        y == Norm(b)
        g1 == IF x[1] = 0 THEN 1 ELSE Gcd(x[1], y[2])
        g2 == IF y[1] = 0 THEN 1 ELSE Gcd(y[1], x[2])
    IN  Norm(<<(x[1] \div g1) * (y[1] \div g2), (x[2] \div g2) * (y[2] \div g1)>>)

\* a / i for a positive integer i
RDivInt(a, i) == RMul(a, <<1, i>>)

\* a > b, over the denominators' least common multiple
RGt(a, b) ==
    LET x == Norm(a)
        y == Norm(b)
        g == Gcd(x[2], y[2])
    IN  x[1] * (y[2] \div g) > y[1] * (x[2] \div g)
RLeq(a, b) == ~RGt(a, b)
REq(a, b) == Norm(a) = Norm(b)

None == <<>>

\* input() has not returned a line (a line is a sequence over Chars, and may
\* be empty)
NotRead == <<"(not read)">>

-----------------------------------------------------------------------------
(* Program constants *)

\* 1024 ** 4 bytes, in granules of 1024 ** 2 bytes
TB == 1024 * 1024

\* cost_per_tb: float = 6
DefaultCostPerTb == <<6, 1>>

\* cost_per_tb=6.25 passed by run_query
RunCostPerTb == <<25, 4>>

\* warning_threshold: float=0.001
DefaultThreshold == <<1, 1000>>

\* the config estimate_query_cost builds for its dry run
DryRunConfigCached == [given |-> TRUE, dry_run |-> "true", use_query_cache |-> "unset"]
DryRunConfig == [given |-> TRUE, dry_run |-> "true", use_query_cache |-> "false"]

\* config: bigquery.QueryJobConfig=None
NoConfig == [given |-> FALSE, dry_run |-> "unset", use_query_cache |-> "unset"]

CancelMessage == "Query cancelled."
AffirmativeToken == <<"y">>

-----------------------------------------------------------------------------
(* Inputs *)

\* byte counts in granules: nothing, one granule, the two counts either side
\* of the default threshold at 6.25 per TB, and a count costing about $0.01
ByteCounts == {0, 1, 167, 168, 1760}

Queries == {"q0", "q167", "q1760"}
HarnessScan == [q \in Queries |->
                   CASE q = "q0" -> 0 [] q = "q167" -> 167 [] OTHER -> 1760]

Prices == {<<0, 1>>, DefaultCostPerTb, RunCostPerTb}

\* 0, the default, and the exact cost of 1760 granules at 6.25 per TB
Thresholds == {<<0, 1>>, DefaultThreshold, <<1375, 131072>>}

\* configs a caller passes for real execution
CallerConfigs == {NoConfig,
                  [given |-> TRUE, dry_run |-> "false", use_query_cache |-> "false"]}

Chars == {"y", "Y", "n", " "}
Lines == UNION {[1..n -> Chars] : n \in 0..MaxInputLen}

Errors == {"BadRequest", "Forbidden"}

-----------------------------------------------------------------------------
(* str.lower *)

LowerChar(c) == CASE c = "Y" -> "y" [] c = "N" -> "n" [] OTHER -> c
Lower(s) == [i \in DOMAIN s |-> LowerChar(s[i])]

\* input(...).lower() != "y"
DeclinesExact(s) == s # AffirmativeToken
Declines(s) == Lower(s) # AffirmativeToken

-----------------------------------------------------------------------------
(* The warehouse, as client.query sees it *)

IsDryRun(cfg) == cfg.dry_run = "true"
UsesCache(cfg) == cfg.use_query_cache # "false"

\* total_bytes_processed of a submission: a cache hit scans nothing
ReportedBytes(q, cfg) ==
    IF UsesCache(cfg) /\ q \in cache THEN 0 ELSE scan[q]

\* a dry run creates no job; anything else becomes a job in state "submitted"
SubmitJobs(q, cfg) ==
    IF IsDryRun(cfg) THEN jobs
    ELSE Append(jobs, [query |-> q, config |-> cfg, state |-> "submitted",
                       err |-> "none"])

Terminal == {"completed", "failed"}

\* the engine picks a submitted job up
JobStart ==
    /\ \E j \in DOMAIN jobs :
          /\ jobs[j].state = "submitted"
          /\ jobs' = [jobs EXCEPT ![j].state = "running"]
    /\ UNCHANGED <<pc, fn, query, config, warning_threshold, cost_per_tb, dry_bytes,
                   estimated_cost, answer, result, log, stdout, cache, scan, calls, step, used>>

\* a running job completes; its result is cached when the job allows caching
JobComplete ==
    /\ \E j \in DOMAIN jobs :
          /\ jobs[j].state = "running"
          /\ jobs' = [jobs EXCEPT ![j].state = "completed"]
          /\ cache' = IF UsesCache(jobs[j].config)
                         THEN cache \cup {jobs[j].query} ELSE cache
    /\ UNCHANGED <<pc, fn, query, config, warning_threshold, cost_per_tb, dry_bytes,
                   estimated_cost, answer, result, log, stdout, scan, calls, step, used>>

\* a running job fails
JobFail ==
    /\ \E j \in DOMAIN jobs, e \in Errors :
          /\ jobs[j].state = "running"
          /\ jobs' = [jobs EXCEPT ![j].state = "failed", ![j].err = e]
    /\ UNCHANGED <<pc, fn, query, config, warning_threshold, cost_per_tb, dry_bytes,
                   estimated_cost, answer, result, log, stdout, cache, scan, calls, step, used>>

-----------------------------------------------------------------------------
(* Records of what a call did *)

Event(kind, cfg, ok, e) ==
    [ev |-> kind, query |-> query, config |-> cfg, ok |-> ok, err |-> e]

NoResult == [kind |-> "none", err |-> "none", code |-> -1, job |-> 0, state |-> "none"]
Returned(j, st) == [kind |-> "return", err |-> "none", code |-> -1, job |-> j, state |-> st]
Raised(e) == [kind |-> "raise", err |-> e, code |-> -1, job |-> 0, state |-> "none"]
Exited(c) == [kind |-> "exit", err |-> "none", code |-> c, job |-> 0, state |-> "none"]

-----------------------------------------------------------------------------
(* estimate_query_cost *)

\* (dry_run.total_bytes_processed / 1024 ** 4) * cost_per_tb
EstimateCostDecimalTB(bytes, price) == RMul(RDivInt(FromInt(bytes), 1000 * 1000), price)
EstimateCost(bytes, price) == RMul(RDivInt(FromInt(bytes), TB), price)

\* dry_run = client.query(query, job_config=config) succeeds
DryRunSubmit ==
    /\ pc = "L11"
    /\ dry_bytes' = ReportedBytes(query, DryRunConfig)
    /\ jobs' = SubmitJobs(query, DryRunConfig)
    /\ log' = Append(log, Event("dry", DryRunConfig, TRUE, "none"))
    /\ pc' = "L12"
    /\ UNCHANGED <<fn, query, config, warning_threshold, cost_per_tb, estimated_cost,
                   answer, result, stdout, cache, scan, calls, step, used>>

\* dry_run = client.query(...) raises: nothing catches it on the way out
DryRunFailsRetry ==
    /\ pc = "L11"
    /\ \E e \in Errors :
          /\ log' = Append(log, Event("dry", DryRunConfig, FALSE, e))
          /\ result' = Raised(e)
    /\ pc' = IF Len(log) = 0 THEN "L11" ELSE "raised"
    /\ UNCHANGED <<fn, query, config, warning_threshold, cost_per_tb, dry_bytes,
                   estimated_cost, answer, stdout, jobs, cache, scan,
                   calls, step, used>>
DryRunFailsSwallowed ==
    /\ pc = "L11"
    /\ \E e \in Errors :
          log' = Append(log, Event("dry", DryRunConfig, FALSE, e))
    /\ dry_bytes' = 0
    /\ pc' = "L12"
    /\ UNCHANGED <<fn, query, config, warning_threshold, cost_per_tb,
                   estimated_cost, answer, result, stdout, jobs, cache, scan,
                   calls, step, used>>
DryRunFails ==
    /\ pc = "L11"
    /\ \E e \in Errors :
          /\ log' = Append(log, Event("dry", DryRunConfig, FALSE, e))
          /\ result' = Raised(e)
    /\ pc' = "raised"
    /\ UNCHANGED <<fn, query, config, warning_threshold, cost_per_tb, dry_bytes,
                   estimated_cost, answer, stdout, jobs, cache, scan,
                   calls, step, used>>

\* return (dry_run.total_bytes_processed / 1024 ** 4) * cost_per_tb
EstimateReturn ==
    /\ pc = "L12"
    /\ estimated_cost' = EstimateCost(dry_bytes, cost_per_tb)
    /\ IF fn = "estimate"
         THEN /\ pc' = "returned"
              /\ result' = Returned(0, "none")
         ELSE /\ pc' = "L23"
              /\ UNCHANGED result
    /\ UNCHANGED <<fn, query, config, warning_threshold, cost_per_tb, dry_bytes,
                   answer, log, stdout, jobs, cache, scan, calls, step, used>>

-----------------------------------------------------------------------------
(* run_query *)

\* estimated_cost > warning_threshold
ExceedsAtLeast(cost, threshold) == ~RGt(threshold, cost)
Exceeds(cost, threshold) == RGt(cost, threshold)

\* the config the real submission carries: job_config=config
RealConfigLeaksDryRun(cfg) == DryRunConfig
RealConfig(cfg) == cfg

\* estimated_cost > warning_threshold is false: input() is not evaluated
NoPrompt ==
    /\ pc = "L23"
    /\ ~Exceeds(estimated_cost, warning_threshold)
    /\ pc' = "L29"
    /\ UNCHANGED <<fn, query, config, warning_threshold, cost_per_tb, dry_bytes,
                   estimated_cost, answer, result, log, stdout, jobs, cache,
                   scan, calls, step, used>>

\* estimated_cost > warning_threshold: input(...) shows the prompt
Prompt ==
    /\ pc = "L23"
    /\ Exceeds(estimated_cost, warning_threshold)
    /\ log' = Append(log, Event("prompt", NoConfig, TRUE, "none"))
    /\ pc' = "input"
    /\ UNCHANGED <<fn, query, config, warning_threshold, cost_per_tb, dry_bytes,
                   estimated_cost, answer, result, stdout, jobs, cache, scan, calls, step, used>>

\* input(...) returns a line; .lower() != "y" decides
ReadLine ==
    /\ pc = "input"
    /\ \E s \in Lines :
          /\ answer' = s
          /\ pc' = IF Declines(s) THEN "L26" ELSE "L29"
    /\ UNCHANGED <<fn, query, config, warning_threshold, cost_per_tb, dry_bytes,
                   estimated_cost, result, log, stdout, jobs, cache, scan, calls, step, used>>

\* input(...) meets end of file: EOFError leaves run_query
ReadEOF ==
    /\ pc = "input"
    /\ result' = Raised("EOFError")
    /\ pc' = "raised"
    /\ UNCHANGED <<fn, query, config, warning_threshold, cost_per_tb, dry_bytes,
                   estimated_cost, answer, log, stdout, jobs, cache, scan, calls, step, used>>

\* print("Query cancelled.")
PrintCancelled ==
    /\ pc = "L26"
    /\ stdout' = Append(stdout, CancelMessage)
    /\ pc' = "L27"
    /\ UNCHANGED <<fn, query, config, warning_threshold, cost_per_tb, dry_bytes,
                   estimated_cost, answer, result, log, jobs, cache, scan, calls, step, used>>

\* sys.exit(0)
SysExitFailure ==
    /\ pc = "L27"
    /\ result' = Exited(1)
    /\ pc' = "exited"
    /\ UNCHANGED <<fn, query, config, warning_threshold, cost_per_tb, dry_bytes,
                   estimated_cost, answer, log, stdout, jobs, cache, scan, calls, step, used>>
SysExit ==
    /\ pc = "L27"
    /\ result' = Exited(0)
    /\ pc' = "exited"
    /\ UNCHANGED <<fn, query, config, warning_threshold, cost_per_tb, dry_bytes,
                   estimated_cost, answer, log, stdout, jobs, cache, scan, calls, step, used>>

\* client.query(query, job_config=config) is accepted by the warehouse
RealSubmit ==
    /\ pc = "L29"
    /\ jobs' = SubmitJobs(query, RealConfig(config))
    /\ log' = Append(log, Event("real", RealConfig(config), TRUE, "none"))
    /\ pc' = "L29r"
    /\ UNCHANGED <<fn, query, config, warning_threshold, cost_per_tb, dry_bytes,
                   estimated_cost, answer, result, stdout, cache, scan,
                   calls, step, used>>

\* client.query(query, job_config=config) raises
RealSubmitFails ==
    /\ pc = "L29"
    /\ \E e \in Errors :
          /\ log' = Append(log, Event("real", RealConfig(config), FALSE, e))
          /\ result' = Raised(e)
    /\ pc' = "raised"
    /\ UNCHANGED <<fn, query, config, warning_threshold, cost_per_tb, dry_bytes,
                   estimated_cost, answer, stdout, jobs, cache, scan,
                   calls, step, used>>

\* return client.query(...): the job is handed back in whatever state it is in
RunReturnAfterResult ==
    /\ pc = "L29r"
    /\ jobs[Len(jobs)].state \in Terminal
    /\ result' = Returned(Len(jobs), jobs[Len(jobs)].state)
    /\ pc' = "returned"
    /\ UNCHANGED <<fn, query, config, warning_threshold, cost_per_tb, dry_bytes,
                   estimated_cost, answer, log, stdout, jobs, cache, scan, calls, step, used>>
RunReturn ==
    /\ pc = "L29r"
    /\ result' = Returned(Len(jobs), jobs[Len(jobs)].state)
    /\ pc' = "returned"
    /\ UNCHANGED <<fn, query, config, warning_threshold, cost_per_tb, dry_bytes,
                   estimated_cost, answer, log, stdout, jobs, cache, scan, calls, step, used>>

-----------------------------------------------------------------------------
(* Callers *)

\* entering estimate_query_cost(client, query, cost_per_tb)
EnterEstimate(q, price) ==
    /\ fn' = "estimate"
    /\ query' = q
    /\ cost_per_tb' = price
    /\ config' = NoConfig
    /\ warning_threshold' = DefaultThreshold

\* entering run_query(client, query, config, warning_threshold), whose first
\* statement calls estimate_query_cost(client=client, query=query, cost_per_tb=6.25)
EnterRun(q, cfg, threshold) ==
    /\ fn' = "run"
    /\ query' = q
    /\ cost_per_tb' = RunCostPerTb
    /\ config' = cfg
    /\ warning_threshold' = threshold

FreshLocals ==
    /\ dry_bytes' = 0
    /\ estimated_cost' = None
    /\ answer' = NotRead
    /\ result' = NoResult
    /\ log' = <<>>
    /\ stdout' = <<>>

\* a caller estimates a query, with the default price or one of its own
CallEstimate ==
    /\ pc = "idle"
    /\ calls < MaxCalls
    /\ \E q \in DOMAIN scan, price \in Prices : EnterEstimate(q, price)
    /\ FreshLocals
    /\ calls' = calls + 1
    /\ pc' = "L11"
    /\ UNCHANGED <<jobs, cache, scan, step, used>>

\* a caller runs a query through the guard
CallRun ==
    /\ pc = "idle"
    /\ calls < MaxCalls
    /\ \E q \in DOMAIN scan, cfg \in CallerConfigs, threshold \in Thresholds :
          EnterRun(q, cfg, threshold)
    /\ FreshLocals
    /\ calls' = calls + 1
    /\ pc' = "L11"
    /\ UNCHANGED <<jobs, cache, scan, step, used>>

\* the caller has the value or has caught the error, and goes on: the call's
\* frame is gone
Resume ==
    /\ pc \in {"returned", "raised"}
    /\ pc' = "idle"
    /\ fn' = "none"
    /\ query' = "none"
    /\ config' = NoConfig
    /\ warning_threshold' = DefaultThreshold
    /\ cost_per_tb' = DefaultCostPerTb
    /\ FreshLocals
    /\ UNCHANGED <<jobs, cache, scan, calls, step, used>>

Init ==
    /\ pc = "idle"
    /\ fn = "none"
    /\ query = "none"
    /\ config = NoConfig
    /\ warning_threshold = DefaultThreshold
    /\ cost_per_tb = DefaultCostPerTb
    /\ dry_bytes = 0
    /\ estimated_cost = None
    /\ answer = NotRead
    /\ result = NoResult
    /\ log = <<>>
    /\ stdout = <<>>
    /\ jobs = <<>>
    /\ cache = {}
    /\ scan = HarnessScan
    /\ calls = 0
    /\ step = 0
    /\ used = {}

Next ==
    \/ CallEstimate
    \/ CallRun
    \/ Resume
    \/ DryRunSubmit
    \/ DryRunFails
    \/ EstimateReturn
    \/ NoPrompt
    \/ Prompt
    \/ ReadLine
    \/ ReadEOF
    \/ PrintCancelled
    \/ SysExit
    \/ RealSubmit
    \/ RealSubmitFails
    \/ RunReturn
    \/ JobStart
    \/ JobComplete
    \/ JobFail

Spec == Init /\ [][Next]_vars

-----------------------------------------------------------------------------
(* The Reporter: queries.py run as a script *)

\* count_total_scenes, plot_cumulative_scenes, visualize_clear_scenes_by_location
ReporterQueries == <<"total_scenes", "cumulative_scenes", "clear_scenes">>

NumQueries == Len(ReporterQueries)

\* what the table may hold: each query scans nothing, little or much
ReporterByteCounts == {0, 167, 1760}

\* bq_utils.run_query(client=client, query=QUERY): config and
\* warning_threshold take their defaults
ReporterCall ==
    /\ pc = "main"
    /\ step \in 1..NumQueries
    /\ EnterRun(ReporterQueries[step], NoConfig, DefaultThreshold)
    /\ FreshLocals
    /\ calls' = calls + 1
    /\ pc' = "L11"
    /\ UNCHANGED <<jobs, cache, scan, step, used>>

\* .result() returns once the job has completed
ReporterResultNoWait ==
    /\ pc = "returned"
    /\ pc' = "use"
    /\ UNCHANGED <<fn, query, config, warning_threshold, cost_per_tb, dry_bytes,
                   estimated_cost, answer, result, log, stdout, jobs, cache,
                   scan, calls, step, used>>
ReporterResult ==
    /\ pc = "returned"
    /\ jobs[result.job].state = "completed"
    /\ pc' = "use"
    /\ UNCHANGED <<fn, query, config, warning_threshold, cost_per_tb, dry_bytes,
                   estimated_cost, answer, result, log, stdout, jobs, cache,
                   scan, calls, step, used>>

\* .result() raises the error of a failed job
ReporterResultFails ==
    /\ pc = "returned"
    /\ jobs[result.job].state = "failed"
    /\ result' = Raised(jobs[result.job].err)
    /\ pc' = "raised"
    /\ UNCHANGED <<fn, query, config, warning_threshold, cost_per_tb, dry_bytes,
                   estimated_cost, answer, log, stdout, jobs, cache, scan,
                   calls, step, used>>

\* the rows are printed or drawn, and the next function is called
ReporterUse ==
    /\ pc = "use"
    /\ used' = used \cup {step}
    /\ step' = step + 1
    /\ pc' = IF step = NumQueries THEN "done" ELSE "main"
    /\ UNCHANGED <<fn, query, config, warning_threshold, cost_per_tb, dry_bytes,
                   estimated_cost, answer, result, log, stdout, jobs, cache,
                   scan, calls>>

ReporterInit ==
    /\ pc = "main"
    /\ fn = "none"
    /\ query = "none"
    /\ config = NoConfig
    /\ warning_threshold = DefaultThreshold
    /\ cost_per_tb = DefaultCostPerTb
    /\ dry_bytes = 0
    /\ estimated_cost = None
    /\ answer = NotRead
    /\ result = NoResult
    /\ log = <<>>
    /\ stdout = <<>>
    /\ jobs = <<>>
    /\ cache = {}
    /\ scan \in [{ReporterQueries[i] : i \in 1..NumQueries} -> ReporterByteCounts]
    /\ calls = 0
    /\ step = 1
    /\ used = {}

ReporterNext ==
    \/ ReporterCall
    \/ ReporterResult
    \/ ReporterResultFails
    \/ ReporterUse
    \/ DryRunSubmit
    \/ DryRunFails
    \/ EstimateReturn
    \/ NoPrompt
    \/ Prompt
    \/ ReadLine
    \/ ReadEOF
    \/ PrintCancelled
    \/ SysExit
    \/ RealSubmit
    \/ RealSubmitFails
    \/ RunReturn
    \/ JobStart
    \/ JobComplete
    \/ JobFail

ReporterSpec == ReporterInit /\ [][ReporterNext]_vars

-----------------------------------------------------------------------------
(* Properties *)

Count(kind) == Cardinality({i \in DOMAIN log : log[i].ev = kind})
Affirmative == {<<"y">>, <<"Y">>}
InRunQuery == fn = "run" /\ estimated_cost # None
AfterRealSubmit == {"L29r", "returned"}

\* the process does nothing more: only the warehouse's jobs may move on
ProcessStopped ==
    /\ pc' = pc
    /\ log' = log
    /\ stdout' = stdout
    /\ result' = result
    /\ calls' = calls
    /\ used' = used
    /\ Len(jobs') = Len(jobs)

\* C1: in run_query, when the estimated cost is less than or equal to the
\* threshold (equal and zero included), no prompt is ever shown, the call
\* never takes the cancel path, and once it has passed line 29 it has made
\* exactly one real submission.
C1_WithinThresholdRunsOnceUnprompted ==
    (InRunQuery /\ ~RGt(estimated_cost, warning_threshold)) =>
        /\ Count("prompt") = 0
        /\ answer = NotRead
        /\ pc \in {"L23", "L29", "L29r", "returned", "raised"}
        /\ Count("real") = IF pc \in {"L29r", "returned", "raised"} THEN 1 ELSE 0
        /\ pc \in AfterRealSubmit =>
              /\ log[Len(log)].ok
              /\ jobs[Len(jobs)].query = query
              /\ ~IsDryRun(jobs[Len(jobs)].config)

C1_Witness ==
    /\ fn = "run" /\ pc = "returned"
    /\ dry_bytes = 0
    /\ estimated_cost = <<0, 1>> /\ warning_threshold = <<0, 1>>
    /\ Count("real") = 1 /\ Count("prompt") = 0

\* C2: in run_query, when the estimated cost is greater than the threshold,
\* the prompt is shown exactly once; an answer of "y" or "Y" leads to the real
\* submission, and every other answer (the empty line and "n" included) ends
\* the call on the cancel path with no real submission.
C2_AboveThresholdPromptsOnce ==
    (InRunQuery /\ RGt(estimated_cost, warning_threshold)) =>
        /\ Count("prompt") = IF pc = "L23" THEN 0 ELSE 1
        /\ (answer # NotRead /\ answer \in Affirmative) =>
              /\ pc \in {"L29", "L29r", "returned", "raised"}
              /\ Count("real") = IF pc = "L29" THEN 0 ELSE 1
        /\ (answer # NotRead /\ answer \notin Affirmative) =>
              /\ pc \in {"L26", "L27", "exited"}
              /\ Count("real") = 0
        /\ answer = NotRead =>
              /\ pc \in {"L23", "input", "raised"}
              /\ Count("real") = 0

C2_Witness ==
    /\ fn = "run" /\ pc = "returned"
    /\ RGt(estimated_cost, warning_threshold)
    /\ answer = <<"Y">>
    /\ Count("prompt") = 1 /\ Count("real") = 1

\* C3: when the answer to the prompt is not affirmative, run_query prints the
\* cancelled message and ends the process with exit status 0: no error is
\* raised, no real submission is made, and once exited nothing more happens.
C3_DeclineExitsCleanly ==
    /\ [](answer # NotRead /\ answer \notin Affirmative =>
            /\ pc \in {"L26", "L27", "exited"}
            /\ Count("real") = 0
            /\ result.kind # "raise"
            /\ pc \in {"L27", "exited"} => stdout = <<"Query cancelled.">>
            /\ pc = "exited" => result.kind = "exit" /\ result.code = 0)
    /\ [][pc = "exited" => ProcessStopped]_vars

C3_Witness ==
    /\ pc = "exited"
    /\ answer = <<"n">>
    /\ result.code = 0
    /\ stdout = <<"Query cancelled.">>

\* C4: the estimate equals B / 2^40 * P exactly: the returned cost times 2^40
\* equals B times P; zero bytes cost zero; and at the same price no smaller
\* byte count costs more and no larger one costs less.
C4_CostIsBytesOverTBTimesPrice ==
    (estimated_cost # None /\ pc \in {"L23", "returned"}) =>
        /\ REq(RMul(estimated_cost, FromInt(1024 * 1024)),
               RMul(FromInt(dry_bytes), cost_per_tb))
        /\ dry_bytes = 0 => estimated_cost = <<0, 1>>
        /\ \A b \in ByteCounts :
              /\ REq(RMul(EstimateCost(b, cost_per_tb), FromInt(1024 * 1024)),
                     RMul(FromInt(b), cost_per_tb))
              /\ b <= dry_bytes => RLeq(EstimateCost(b, cost_per_tb), estimated_cost)
              /\ b >= dry_bytes => RLeq(estimated_cost, EstimateCost(b, cost_per_tb))

C4_Witness ==
    /\ fn = "estimate" /\ pc = "returned"
    /\ dry_bytes = 1760
    /\ cost_per_tb = <<6, 1>>
    /\ estimated_cost = <<165, 16384>>

\* C5: a dry run reports the bytes a full scan of the unchanged data reads,
\* whether or not the query's result is cached, so any two estimates of a
\* query agree; and the dry run leaves the cache and the jobs as they were.
C5_EstimateIgnoresCache ==
    /\ [](pc = "L12" => dry_bytes = scan[query])
    /\ [][(pc = "L11" /\ pc' # "L11") => (cache' = cache /\ jobs' = jobs)]_vars

C5_Witness ==
    /\ pc = "L12"
    /\ query \in cache
    /\ scan[query] > 0
    /\ dry_bytes = scan[query]

\* C6: a failed submission is the last thing its call does: it is attempted
\* once, the error it raised is the error the caller sees, and after a failed
\* dry run no prompt is shown and no real submission is made.
C6_FailurePropagatesWithoutRetry ==
    \A i \in DOMAIN log :
        ~log[i].ok =>
            /\ i = Len(log)
            /\ pc = "raised"
            /\ result.kind = "raise"
            /\ result.err = log[i].err
            /\ Count(log[i].ev) = 1
            /\ log[i].ev = "dry" => (Len(log) = 1 /\ estimated_cost = None)
            /\ log[i].ev = "real" => Count("dry") = 1

C6_Witness ==
    /\ fn = "run" /\ pc = "raised"
    /\ Len(log) = 1
    /\ log[1].ev = "dry" /\ ~log[1].ok
    /\ result.err = "BadRequest"
    /\ jobs = <<>>

\* C7: once the warehouse has accepted the real submission, run_query can
\* return at once whatever state the job is in, and what it returns is the
\* handle of that job.
C7_ReturnsHandleWithoutWaiting ==
    /\ pc = "L29r" => ENABLED RunReturn
    /\ (pc = "returned" /\ fn = "run") =>
          /\ result.kind = "return"
          /\ result.job = Len(jobs)
          /\ jobs[result.job].query = query
          /\ result.state \in {"submitted", "running", "completed", "failed"}

C7_Witness ==
    /\ fn = "run" /\ pc = "returned"
    /\ result.state = "running"
    /\ jobs[result.job].state = "running"

\* C9: in a run_query call the log is a dry run, then at most one prompt, then
\* at most one real submission: a real submission is preceded by exactly one
\* successful dry run of the same query string and by the prompt, if any.
C9_EstimateBeforeRealSubmission ==
    /\ Len(log) >= 1 => log[1].ev = "dry"
    /\ \A i \in DOMAIN log :
          /\ log[i].ev = "prompt" => (i = 2 /\ log[1].ok)
          /\ log[i].ev = "real" =>
                /\ i = Len(log)
                /\ i > 1
                /\ Count("dry") = 1
                /\ log[1].ok
                /\ log[1].query = log[i].query
                /\ estimated_cost # None
    /\ pc \in {"L29r", "returned"} /\ fn = "run" => Count("real") = 1

C9_Witness ==
    /\ fn = "run" /\ pc = "returned"
    /\ Len(log) = 3
    /\ log[1].ev = "dry" /\ log[2].ev = "prompt" /\ log[3].ev = "real"

\* C10: the dry run always carries its own config (dry_run on, query cache
\* off) and the real submission carries exactly the caller's config; the
\* estimate run_query compares is the full-scan bytes at 6.25 per 2^40 bytes,
\* whatever the caller's config.
C10_CallerConfigOnlyOnRealSubmission ==
    /\ \A i \in DOMAIN log :
          /\ log[i].ev = "dry" =>
                log[i].config = [given |-> TRUE, dry_run |-> "true",
                                 use_query_cache |-> "false"]
          /\ log[i].ev = "real" =>
                /\ log[i].config = config
                /\ ~IsDryRun(log[i].config)
    /\ (pc \in AfterRealSubmit /\ fn = "run") => jobs[Len(jobs)].config = config
    /\ InRunQuery =>
          REq(RMul(estimated_cost, <<4 * 1024 * 1024, 1>>), <<25 * scan[query], 1>>)

C10_Witness ==
    /\ fn = "run" /\ pc = "returned"
    /\ config = [given |-> TRUE, dry_run |-> "false", use_query_cache |-> "false"]
    /\ scan[query] = 1760
    /\ estimated_cost = <<1375, 131072>>
    /\ log[1].config.use_query_cache = "false" /\ log[1].config.dry_run = "true"
    /\ jobs[Len(jobs)].config = config

\* C8: the Reporter submits its queries in the order total, cumulative, clear;
\* while query k is inside run_query every earlier query has been really
\* submitted, awaited to completion and used; a result is used only once its
\* job has completed; and after a decline (exit 0) or a failure nothing more
\* is submitted.
C8_ReporterSequentialAndHalts ==
    /\ [](/\ Len(jobs) <= 3
          /\ \A i \in DOMAIN jobs :
                jobs[i].query = <<"total_scenes", "cumulative_scenes", "clear_scenes">>[i]
          /\ step <= 3 => Len(jobs) \in {step - 1, step}
          /\ \A j \in 1..3 :
                /\ j < step => (j \in used /\ j <= Len(jobs) /\ jobs[j].state = "completed")
                /\ j \in used => (j <= Len(jobs) /\ jobs[j].state = "completed")
          /\ pc = "use" => jobs[step].state = "completed"
          /\ (Len(log) >= 1 /\ pc # "main" /\ pc # "done") => log[1].query = <<"total_scenes", "cumulative_scenes", "clear_scenes">>[step]
          /\ pc = "exited" => result.code = 0)
    /\ [][(pc = "exited" \/ pc = "raised") => ProcessStopped]_vars

C8_Witness ==
    /\ pc = "exited"
    /\ step = 2
    /\ used = {1}
    /\ Len(jobs) = 1 /\ jobs[1].state = "completed"

=============================================================================
